---- MODULE Spec2Model ----
(***************************************************************************)
(* Root-cause and cascade-impact analysis of dashboard/backend/main.py.    *)
(*                                                                         *)
(* The graph lives in a graph database; the handlers read it with Cypher   *)
(* queries, each query in its own auto-commit transaction.  The model      *)
(* keeps the graph (assets, edges) as state, evaluates every query as the  *)
(* query language defines it (a variable-length pattern -[:K*1..n]-> binds *)
(* every path of 1..n relationships that uses no relationship twice) and   *)
(* has one action per query of a handler, so that a writer's commit can    *)
(* fall between two queries of one invocation.                             *)
(***************************************************************************)
EXTENDS Integers, Sequences, FiniteSets, TLC

VARIABLES
    assets,    \* the Asset nodes: id -> [name, type, status]
    edges,     \* the relationships: set of [src, kind, dst]
    universe,  \* the relationships the writers of this run may create
    rca,       \* the find_root_cause invocation in flight
    cas,       \* the analyze_cascade_impact invocation in flight
    crit,      \* the analyze_critical_paths invocation in flight
    drift,     \* the calculate_drift invocation in flight
    setup,     \* position of the setup_cascading_failures handler
    hist       \* graph versions committed since the first query in flight

vars == <<assets, edges, universe, rca, cas, crit, drift, setup, hist>>

\* a value that is no record of a query (Python's None)
NoRecord == [none |-> TRUE]

----------------------------------------------------------------------------
(* Constants of the queries *)

\* a fault: find_root_cause given the kind list of analyze_cascade_impact
RootCauseKindsWithControls ==
    {"POWERS", "CONNECTS_TO", "FEEDS_DATA", "DEPENDS_ON", "CONTROLS"}

\* -[:POWERS|CONNECTS_TO|FEEDS_DATA|DEPENDS_ON*1..5]-> of find_root_cause
RootCauseKinds == {"POWERS", "CONNECTS_TO", "FEEDS_DATA", "DEPENDS_ON"}

\* -[:POWERS|CONNECTS_TO|FEEDS_DATA|DEPENDS_ON|CONTROLS*1..5]-> of analyze_cascade_impact
CascadeKinds == {"POWERS", "CONNECTS_TO", "FEEDS_DATA", "DEPENDS_ON", "CONTROLS"}

\* a fault: the pattern written *1..6
RootCauseMaxHopsOneMore == 5 + 1

\* the upper bound of *1..5 in find_root_cause
RootCauseMaxHops == 5

\* a fault: the walk of analyze_cascade_impact one hop longer
CascadeMaxHopsOneMore == 5 + 1

\* the upper bound of *1..5 in analyze_cascade_impact
CascadeMaxHops == 5

\* WHERE root.status IN [...] of find_root_cause
UnhealthyStatuses ==
    {"offline", "error", "failed", "unreachable", "degraded", "warning"}

\* record["status"] in [...] of analyze_cascade_impact
AffectedStatuses == {"offline", "error", "degraded", "warning"}

----------------------------------------------------------------------------
(* Path matching *)

Range(s) == {s[i] : i \in DOMAIN s}

\* the nodes of a path, first to last
PathNodes(p) == [i \in 1..(Len(p) + 1) |-> IF i = 1 THEN p[1].src ELSE p[i - 1].dst]

\* every path of 1..n relationships of kinds K that ends at node t and uses
\* no relationship twice (nodes may repeat), as the sequence of its relationships
RECURSIVE TrailsInto(_, _, _, _)
TrailsInto(E, K, t, n) ==
    IF n = 0 THEN {}
    ELSE LET shorter == TrailsInto(E, K, t, n - 1)
             usable == {e \in E : e.kind \in K}
             grown == {ep \in usable \X shorter :
                          /\ Len(ep[2]) = n - 1
                          /\ ep[1].dst = ep[2][1].src
                          /\ ep[1] \notin Range(ep[2])}
         IN  shorter
               \cup {<<e>> : e \in {x \in usable : x.dst = t}}
               \cup {<<ep[1]>> \o ep[2] : ep \in grown}

\* every path of 1..n relationships of kinds K that starts at node s
RECURSIVE TrailsFrom(_, _, _, _)
TrailsFrom(E, K, s, n) ==
    IF n = 0 THEN {}
    ELSE LET shorter == TrailsFrom(E, K, s, n - 1)
             usable == {e \in E : e.kind \in K}
             grown == {pe \in shorter \X usable :
                          /\ Len(pe[1]) = n - 1
                          /\ pe[1][n - 1].dst = pe[2].src
                          /\ pe[2] \notin Range(pe[1])}
         IN  shorter
               \cup {<<e>> : e \in {x \in usable : x.src = s}}
               \cup {Append(pe[1], pe[2]) : pe \in grown}

\* MATCH (x:Asset {name: $assetName})
MatchName(A, name) == {i \in DOMAIN A : A[i].name = name}

----------------------------------------------------------------------------
(* find_root_cause *)

\* a fault: the status test applied to every asset the path passes through
RcaRowsUnhealthyWalk(A, E, name) ==
    LET matches(t) == {p \in TrailsInto(E, RootCauseKinds, t, RootCauseMaxHops) :
                          \A i \in 1..Len(p) : A[p[i].src].status \in UnhealthyStatuses}
        rowsOf(t) == IF matches(t) = {}
                     THEN {[target |-> t, path |-> <<>>]}
                     ELSE {[target |-> t, path |-> p] : p \in matches(t)}
    IN  UNION {rowsOf(t) : t \in MatchName(A, name)}

\* the rows after OPTIONAL MATCH ... WHERE root.status IN [...]: one row per
\* target and matching path; a target without a matching path keeps one row
\* whose path, root and depth are null (path <<>> here)
RcaRows(A, E, name) ==
    LET matches(t) == {p \in TrailsInto(E, RootCauseKinds, t, RootCauseMaxHops) :
                          A[p[1].src].status \in UnhealthyStatuses}
        rowsOf(t) == IF matches(t) = {}
                     THEN {[target |-> t, path |-> <<>>]}
                     ELSE {[target |-> t, path |-> p] : p \in matches(t)}
    IN  UNION {rowsOf(t) : t \in MatchName(A, name)}

\* ORDER BY depth DESC LIMIT 1: null sorts first in descending order, rows of
\* equal depth come in an order the database does not define
RcaFirstRows(A, E, name) ==
    LET rows == RcaRows(A, E, name)
        nulls == {r \in rows : r.path = <<>>}
    IN  IF nulls # {} THEN nulls
        ELSE {r \in rows : \A q \in rows : Len(q.path) <= Len(r.path)}

\* a fault: the chain collected from the target back to the root
RcaRecordTargetFirst(A, row) ==
    LET nodes == PathNodes(row.path)
        n == Len(nodes)
        root == nodes[1]
    IN  [targetAsset |-> A[row.target].name,
         targetStatus |-> A[row.target].status,
         rootCause |-> A[root].name,
         rootCauseType |-> A[root].type,
         rootCauseStatus |-> A[root].status,
         failureDepth |-> Len(row.path),
         failureChain |-> [i \in 1..n |->
                             [name |-> A[nodes[n + 1 - i]].name,
                              type |-> A[nodes[n + 1 - i]].type,
                              status |-> A[nodes[n + 1 - i]].status]],
         relationshipTypes |-> [i \in 1..Len(row.path) |-> row.path[i].kind]]

\* the map the query returns for a row with a path
RcaRecord(A, row) ==
    LET nodes == PathNodes(row.path)
        root == nodes[1]
    IN  [targetAsset |-> A[row.target].name,
         targetStatus |-> A[row.target].status,
         rootCause |-> A[root].name,
         rootCauseType |-> A[root].type,
         rootCauseStatus |-> A[root].status,
         failureDepth |-> Len(row.path),
         failureChain |-> [i \in 1..Len(nodes) |->
                             [name |-> A[nodes[i]].name,
                              type |-> A[nodes[i]].type,
                              status |-> A[nodes[i]].status]],
         relationshipTypes |-> [i \in 1..Len(row.path) |-> row.path[i].kind]]

\* the response of the isolated-failure branch, from the second query's record
RcaIsolated(name, type, status) ==
    [targetAsset |-> name,
     rootCause |-> name,
     rootCauseType |-> type,
     rootCauseStatus |-> status,
     failureDepth |-> 0,
     failureChain |-> <<>>]

AssetNotFound == [error |-> "Asset not found"]

IsError(r) == "error" \in DOMAIN r

----------------------------------------------------------------------------
(* analyze_cascade_impact *)

\* every function f on DOMAIN F with f[x] \in F[x]
RECURSIVE Choices(_)
Choices(F) ==
    IF DOMAIN F = {} THEN {<<>>}
    ELSE LET x == CHOOSE y \in DOMAIN F : TRUE
             rest == Choices([y \in DOMAIN F \ {x} |-> F[y]])
         IN  UNION {{[y \in DOMAIN F |-> IF y = x THEN v ELSE g[y]] : g \in rest} :
                       v \in F[x]}

\* the rows of the paths query: (affected node, length of the path)
CasRows(A, E, name) ==
    UNION {{[affected |-> p[Len(p)].dst, distance |-> Len(p)] :
               p \in TrailsFrom(E, CascadeKinds, s, CascadeMaxHops)} :
              s \in MatchName(A, name)}

\* the rows that can come first for a name under ORDER BY affected.name,
\* length(path): those of the smallest distance among the rows of that name
CasFirstRows(A, rows, n) ==
    {r \in rows : /\ A[r.affected].name = n
                  /\ \A q \in rows : A[q.affected].name = n => r.distance <= q.distance}

\* assets_map after the loop: per name, the entry of the first row of that name
CasEntry(A, r) ==
    [name |-> A[r.affected].name,
     type |-> A[r.affected].type,
     status |-> A[r.affected].status,
     distance |-> r.distance,
     isAffected |-> A[r.affected].status \in AffectedStatuses]

\* a fault: the loop without its test `not in assets_map`, one entry a row
CasAssetsMapsEveryRow(A, E, name) ==
    LET rows == CasRows(A, E, name)
    IN  {[r \in rows |-> CasEntry(A, r)]}

CasAssetsMaps(A, E, name) ==
    LET rows == CasRows(A, E, name)
        names == {A[r.affected].name : r \in rows}
    IN  Choices([n \in names |-> {CasEntry(A, r) : r \in CasFirstRows(A, rows, n)}])

SetMax(S) == CHOOSE x \in S : \A y \in S : y <= x

\* a fault: the thresholds of the severity taken inclusively
SeverityInclusive(total_downstream) ==
    IF total_downstream >= 10 THEN "critical"
    ELSE IF total_downstream >= 5 THEN "high"
    ELSE IF total_downstream >= 2 THEN "medium"
    ELSE "low"

Severity(total_downstream) ==
    IF total_downstream > 10 THEN "critical"
    ELSE IF total_downstream > 5 THEN "high"
    ELSE IF total_downstream > 2 THEN "medium"
    ELSE "low"

\* impact_data, from the source record of the first query and assets_map
CasImpact(source, assets_map) ==
    LET names == DOMAIN assets_map
        total_downstream == Cardinality(names)
    IN  [sourceAsset |-> source.name,
         sourceType |-> source.type,
         sourceStatus |-> source.status,
         totalDownstream |-> total_downstream,
         currentlyAffected |-> Cardinality({n \in names : assets_map[n].isAffected}),
         potentialImpact |-> total_downstream,
         impactRadius |-> IF names = {} THEN 0
                          ELSE SetMax({assets_map[n].distance : n \in names}),
         allAffectedAssets |-> assets_map,
         severity |-> Severity(total_downstream)]

----------------------------------------------------------------------------
(* analyze_critical_paths *)

\* -[:POWERS|CONNECTS_TO|FEEDS_DATA*1..3]-> of analyze_critical_paths
CritKinds == {"POWERS", "CONNECTS_TO", "FEEDS_DATA"}

\* the upper bound of *1..3 in analyze_critical_paths
CritMaxHops == 3

\* a fault: the threshold of the WHERE one lower
CritMinDependentsLower == 3 - 1

\* WHERE dependentCount > 3
CritMinDependents == 3

\* a fault: LIMIT 9
CritLimitLower == 10 - 1

\* LIMIT 10
CritLimit == 10

\* the nodes bound to `dependent` for the node c (DISTINCT: each node once)
CritDependents(E, c) == {p[Len(p)].dst : p \in TrailsFrom(E, CritKinds, c, CritMaxHops)}

\* dependentCount + the two CASE terms
CritScore(A, E, c) ==
    Cardinality(CritDependents(E, c))
      + (IF A[c].type \in {"UPS", "Router", "NetworkSwitch"} THEN 10 ELSE 0)
      + (IF A[c].status \in {"warning", "degraded"} THEN 5 ELSE 0)

\* the map returned for the node c
CritRow(A, E, c) ==
    LET dependentCount == Cardinality(CritDependents(E, c))
        criticalityScore == CritScore(A, E, c)
    IN  [asset |-> A[c].name,
         type |-> A[c].type,
         status |-> A[c].status,
         dependentCount |-> dependentCount,
         criticalityScore |-> criticalityScore,
         isSPOF |-> TRUE,
         severity |-> IF criticalityScore > 20 THEN "critical"
                      ELSE IF criticalityScore > 10 THEN "high"
                      ELSE "medium",
         dependencies |-> {[name |-> A[d].name, type |-> A[d].type, status |-> A[d].status] :
                              d \in CritDependents(E, c)},
         recommendation |->
             IF A[c].type \in {"UPS", "PowerSupply"}
             THEN "CRITICAL: Add redundant power source"
             ELSE IF A[c].type \in {"Router", "NetworkSwitch"}
             THEN "HIGH: Implement network redundancy"
             ELSE "Consider redundancy for " \o ToString(dependentCount)
                    \o " dependent systems"]

\* the nodes that pass WHERE dependentCount > 3
CritReported(A, E) ==
    {c \in DOMAIN A : Cardinality(CritDependents(E, c)) > CritMinDependents}

\* ORDER BY criticalityScore DESC LIMIT k over the nodes C: the orders in which
\* the rows can come, rows of equal score in an order the database does not
\* define
RECURSIVE CritOrders(_, _, _, _)
CritOrders(A, E, C, k) ==
    IF C = {} \/ k = 0 THEN {<<>>}
    ELSE LET top == {c \in C : \A d \in C : CritScore(A, E, d) <= CritScore(A, E, c)}
         IN  UNION {{<<c>> \o rest : rest \in CritOrders(A, E, C \ {c}, k - 1)} :
                       c \in top}

----------------------------------------------------------------------------
(* calculate_drift *)

\* a property the node does not have (null in the query, None in the handler)
Null == "<null>"

\* the value of property f of node a
Property(a, f) == IF f \in DOMAIN a THEN a[f] ELSE Null

\* coalesce(x, d)
Coalesce(x, d) == IF x = Null THEN d ELSE x

\* the map the query returns for node a
ActualState(a) ==
    [name |-> a.name,
     type |-> a.type,
     status |-> Property(a, "status"),
     ipAddress |-> Property(a, "ipAddress"),
     version |-> Property(a, "version"),
     configChecksum |-> Coalesce(Property(a, "configChecksum"), "unknown"),
     securityZone |-> Property(a, "securityZone")]

\* LIMIT 50
DriftLimit == 50

\* the literal 50 of the summary
DriftAssumedTotal == 50

\* the nodes the query returns: the first 50 in name order.  The graphs of
\* the runs list their assets in name order.
DriftExamined(A) == 1..(IF Len(A) < DriftLimit THEN Len(A) ELSE DriftLimit)

Config(n, t, st, ip, v, sum, zone) ==
    [name |-> n, type |-> t, status |-> st, ipAddress |-> ip, version |-> v,
     configChecksum |-> sum, securityZone |-> zone]

\* gitops_configs: the intended configuration of the predefined assets
gitops_configs ==
    [n \in {"PLC-001", "NetworkSwitch-01", "Robot-Arm-101", "SCADA-HMI-01"} |->
        CASE n = "PLC-001" ->
                 Config(n, "PLC", "running", "192.168.1.10", "2.5.0", "a1b2c3d4",
                        "Level 1 - Control")
          [] n = "NetworkSwitch-01" ->
                 Config(n, "NetworkSwitch", "running", "192.168.0.5", "16.9.3", "e5f6g7h8",
                        "Level 2 - Supervisory")
          [] n = "Robot-Arm-101" ->
                 Config(n, "Robot", "running", "192.168.2.15", "7.2.1", "i9j0k1l2",
                        "Level 1 - Control")
          [] n = "SCADA-HMI-01" ->
                 Config(n, "SCADA", "running", "192.168.3.20", "12.4.0", "m3n4o5p6",
                        "Level 2 - Supervisory")]

\* some of the addresses random.randint(1,5), random.randint(10,250) make
RandomIpAddresses == {"192.168.1.10", "192.168.3.77"}

\* some of the versions the three random digits make
RandomVersions == {"1.0.0", "4.2.7"}

\* some of the checksums: 1000..9999 in hexadecimal
RandomChecksums == {"03e8", "270f"}

\* the configurations get_gitops_config_for_asset can return: the predefined
\* one, or a default whose address, version and checksum are drawn at random
get_gitops_config_for_asset(asset_name, asset_type) ==
    IF asset_name \in DOMAIN gitops_configs
    THEN {gitops_configs[asset_name]}
    ELSE {Config(asset_name, asset_type, "running", ip, v, sum, "Level 1 - Control") :
            ip \in RandomIpAddresses, v \in RandomVersions, sum \in RandomChecksums}

\* a fault: the comparison of the status keeps the case
LowerKeepsCase(str) == str

\* str.lower(), for the strings the runs write into a status
Lower(str) ==
    CASE str = "Running" -> "running"
      [] str = "RUNNING" -> "running"
      [] str = "Offline" -> "offline"
      [] OTHER -> str

\* a fault: an unknown observed checksum is reported like any other
ChecksumReportedAlways(actual, intended) ==
    actual.configChecksum # intended.configChecksum

\* the two nested conditions of the checksum comparison
ChecksumReported(actual, intended) ==
    /\ actual.configChecksum # intended.configChecksum
    /\ actual.configChecksum # "unknown"

\* the exception None.lower() raises; the handler answers with status 500
DriftRaised == [error |-> "AttributeError"]

DriftEntry(field, actual, intended, severity) ==
    [field |-> field, intended |-> intended[field], actual |-> actual[field],
     severity |-> severity]

\* the body of the loop for one row: the mismatch entries, the running
\* drift_severity after the five comparisons, and the increments of
\* critical_drift
DriftOfAsset(actual, intended) ==
    IF actual.status = Null \/ intended.status = Null
    THEN DriftRaised
    ELSE
    LET status ==
            IF Lower(actual.status) # Lower(intended.status)
            THEN <<DriftEntry("status", actual, intended,
                              IF actual.status \in {"offline", "error", "failed"}
                              THEN "critical" ELSE "high")>>
            ELSE <<>>
        s1 == IF status # <<>> THEN "critical" ELSE "none"
        ipAddress ==
            IF actual.ipAddress # intended.ipAddress
            THEN <<DriftEntry("ipAddress", actual, intended, "medium")>>
            ELSE <<>>
        s2 == IF ipAddress # <<>> /\ s1 = "none" THEN "medium" ELSE s1
        version ==
            IF actual.version # intended.version
            THEN <<DriftEntry("version", actual, intended, "high")>>
            ELSE <<>>
        s3 == IF version # <<>> /\ s2 \in {"none", "medium"} THEN "high" ELSE s2
        configChecksum ==
            IF ChecksumReported(actual, intended)
            THEN <<DriftEntry("configChecksum", actual, intended, "high")>>
            ELSE <<>>
        s4 == IF configChecksum # <<>> /\ s3 \in {"none", "medium"} THEN "high" ELSE s3
        securityZone ==
            IF actual.securityZone # intended.securityZone
            THEN <<DriftEntry("securityZone", actual, intended, "critical")>>
            ELSE <<>>
        s5 == IF securityZone # <<>> THEN "critical" ELSE s4
    IN  [drifts |-> status \o ipAddress \o version \o configChecksum \o securityZone,
         drift_severity |-> s5,
         critical_drift |-> (IF status # <<>> THEN 1 ELSE 0)
                              + (IF securityZone # <<>> THEN 1 ELSE 0)]

\* f[1] + ... + f[n]
RECURSIVE SumTo(_, _)
SumTo(f, n) == IF n = 0 THEN 0 ELSE f[n] + SumTo(f, n - 1)

\* the response of calculate_drift on graph A when the configuration
\* provider returns intended[i] for the i-th row; ids names the nodes the
\* records came from
DriftReport(A, intended) ==
    LET examined == DriftExamined(A)
        of == [i \in examined |-> DriftOfAsset(ActualState(A[i]), intended[i])]
    IN  IF \E i \in examined : of[i] = DriftRaised
        THEN [result |-> DriftRaised, ids |-> <<>>]
        ELSE
        LET Drifted(i) == of[i].drifts # <<>>
            ids == SelectSeq([i \in examined |-> i], Drifted)
            drift_records ==
                [k \in DOMAIN ids |->
                    [assetName |-> A[ids[k]].name,
                     assetType |-> A[ids[k]].type,
                     driftStatus |-> of[ids[k]].drift_severity,
                     driftCount |-> Len(of[ids[k]].drifts),
                     drifts |-> of[ids[k]].drifts]]
            total_drifted == Len(ids)
            critical_drift ==
                SumTo([i \in examined |-> of[i].critical_drift], Cardinality(examined))
        IN  [result |->
                [summary |->
                    [totalAssets |-> Len(drift_records) + (DriftAssumedTotal - total_drifted),
                     driftedAssets |-> total_drifted,
                     inSyncAssets |-> DriftAssumedTotal - total_drifted,
                     criticalDrifts |-> critical_drift,
                     driftPercentage |-> (total_drifted * 100) \div DriftAssumedTotal],
                 drifts |-> drift_records],
             ids |-> ids]

----------------------------------------------------------------------------
(* The handlers as state machines: one action per query *)

Graph == [assets |-> assets, edges |-> edges]

Idle == rca.pc = "idle" /\ cas.pc = "idle" /\ crit.pc = "idle" /\ drift.pc = "idle"

\* an invocation has run some but not all of its queries
InFlight == rca.pc = "second" \/ cas.pc = "second"

RcaIdle == [pc |-> "idle", name |-> "", result |-> NoRecord, before |-> NoRecord]

CasIdle == [pc |-> "idle", name |-> "", source |-> NoRecord, result |-> NoRecord]

CritIdle == [pc |-> "idle", result |-> <<>>, ids |-> <<>>, before |-> NoRecord]

DriftIdle == [pc |-> "idle", result |-> NoRecord, ids |-> <<>>, intended |-> <<>>]

\* what find_root_cause holds after result.single() and the test
\* `record and record["rca"]["rootCause"]`: the map to return, or NoRecord
\* when the handler goes on to its second query
RcaFirst(A, E, name) ==
    IF MatchName(A, name) = {} THEN {NoRecord}
    ELSE {IF row.path = <<>> THEN NoRecord ELSE RcaRecord(A, row) :
             row \in RcaFirstRows(A, E, name)}

\* a fault: the test on asset_record inverted
RcaSecondInverted(A, name) ==
    IF MatchName(A, name) # {} THEN {AssetNotFound}
    ELSE {RcaIsolated(name, "Unknown", "unknown")}

\* a fault: the test on asset_record left out, the record's fields defaulted
RcaSecondUnchecked(A, name) ==
    IF MatchName(A, name) = {} THEN {RcaIsolated(name, "Unknown", "unknown")}
    ELSE {RcaIsolated(name, A[i].type, A[i].status) : i \in MatchName(A, name)}

\* what find_root_cause returns after asset_result.single()
RcaSecond(A, name) ==
    IF MatchName(A, name) = {} THEN {AssetNotFound}
    ELSE {RcaIsolated(name, A[i].type, A[i].status) : i \in MatchName(A, name)}

\* the names a request may carry: every asset's name and one no asset has
MissingName == "No-Such-Asset"

RequestNames(A) == {A[i].name : i \in DOMAIN A} \cup {MissingName}

\* find_root_cause, first query (and the return of the upstream branch)
RcaQuery1 ==
    /\ Idle
    /\ \E name \in RequestNames(assets) :
         \E first \in RcaFirst(assets, edges, name) :
            rca' = [pc |-> IF first = NoRecord THEN "second" ELSE "done",
                    name |-> name, result |-> first, before |-> NoRecord]
    /\ hist' = {Graph}
    /\ UNCHANGED <<assets, edges, universe, drift, crit, cas, setup>>

\* find_root_cause, second query and the return of the isolated branch
RcaQuery2 ==
    /\ rca.pc = "second"
    /\ \E r \in RcaSecond(assets, rca.name) :
          rca' = [rca EXCEPT !.pc = "done", !.result = r]
    /\ UNCHANGED <<assets, edges, universe, drift, crit, cas, setup, hist>>

\* the client sends the same request again: first query of the second call
RcaAgain ==
    /\ rca.pc = "done"
    /\ rca.before = NoRecord
    /\ hist = {Graph}
    /\ \E first \in RcaFirst(assets, edges, rca.name) :
          rca' = [pc |-> IF first = NoRecord THEN "second" ELSE "done",
                  name |-> rca.name, result |-> first, before |-> rca.result]
    /\ UNCHANGED <<assets, edges, universe, drift, crit, cas, setup, hist>>

RcaRespond ==
    /\ rca.pc = "done"
    /\ rca' = RcaIdle
    /\ hist' = {}
    /\ UNCHANGED <<assets, edges, universe, drift, crit, cas, setup>>

\* analyze_cascade_impact, first query: the source record, or the error
CasQuery1 ==
    /\ Idle
    /\ \E name \in RequestNames(assets) :
         IF MatchName(assets, name) = {}
         THEN cas' = [pc |-> "done", name |-> name, source |-> NoRecord,
                      result |-> AssetNotFound]
         ELSE \E i \in MatchName(assets, name) :
                 cas' = [pc |-> "second", name |-> name, source |-> assets[i],
                         result |-> NoRecord]
    /\ hist' = {Graph}
    /\ UNCHANGED <<assets, edges, universe, drift, crit, rca, setup>>

\* analyze_cascade_impact, paths query and the rest of the handler
CasQuery2 ==
    /\ cas.pc = "second"
    /\ \E m \in CasAssetsMaps(assets, edges, cas.name) :
          cas' = [cas EXCEPT !.pc = "done", !.result = CasImpact(cas.source, m)]
    /\ UNCHANGED <<assets, edges, universe, drift, crit, rca, setup, hist>>

\* the client sends the same cascade request again: first query of the second
\* call; `before` keeps the first answer, `grown` whether the graph has changed
\* since the first call read it
CasAgain ==
    /\ cas.pc = "done"
    /\ "before" \notin DOMAIN cas
    /\ IF MatchName(assets, cas.name) = {}
       THEN cas' = [pc |-> "done", name |-> cas.name, source |-> NoRecord,
                    result |-> AssetNotFound,
                    before |-> cas.result, grown |-> Graph \notin hist]
       ELSE \E i \in MatchName(assets, cas.name) :
               cas' = [pc |-> "second", name |-> cas.name, source |-> assets[i],
                       result |-> NoRecord,
                       before |-> cas.result, grown |-> Graph \notin hist]
    /\ hist' = {Graph}
    /\ UNCHANGED <<assets, edges, universe, drift, crit, rca, setup>>

CasRespond ==
    /\ cas.pc = "done"
    /\ cas' = CasIdle
    /\ hist' = {}
    /\ UNCHANGED <<assets, edges, universe, drift, crit, rca, setup>>

\* analyze_critical_paths: its one query and the list it returns; ids are the
\* nodes the rows came from, in the order of the rows
CritQuery ==
    /\ Idle
    /\ \E ids \in CritOrders(assets, edges, CritReported(assets, edges), CritLimit) :
          crit' = [pc |-> "done",
                   result |-> [i \in DOMAIN ids |-> CritRow(assets, edges, ids[i])],
                   ids |-> ids, before |-> NoRecord]
    /\ hist' = {Graph}
    /\ UNCHANGED <<assets, edges, universe, drift, rca, cas, setup>>

\* the client sends the same request again on the unchanged graph
CritAgain ==
    /\ crit.pc = "done"
    /\ crit.before = NoRecord
    /\ hist = {Graph}
    /\ \E ids \in CritOrders(assets, edges, CritReported(assets, edges), CritLimit) :
          crit' = [pc |-> "done",
                   result |-> [i \in DOMAIN ids |-> CritRow(assets, edges, ids[i])],
                   ids |-> ids, before |-> [result |-> crit.result, ids |-> crit.ids]]
    /\ UNCHANGED <<assets, edges, universe, drift, rca, cas, setup, hist>>

CritRespond ==
    /\ crit.pc = "done"
    /\ crit' = CritIdle
    /\ hist' = {}
    /\ UNCHANGED <<assets, edges, universe, drift, rca, cas, setup>>

\* calculate_drift: one query, then the loop over its rows
DriftQuery ==
    /\ Idle
    /\ \E intended \in Choices([i \in DriftExamined(assets) |->
                                  get_gitops_config_for_asset(assets[i].name, assets[i].type)]) :
          LET report == DriftReport(assets, intended)
          IN  drift' = [pc |-> "done", result |-> report.result, ids |-> report.ids,
                        intended |-> intended]
    /\ UNCHANGED <<assets, edges, universe, rca, cas, crit, setup, hist>>

DriftRespond ==
    /\ drift.pc = "done"
    /\ drift' = DriftIdle
    /\ UNCHANGED <<assets, edges, universe, rca, cas, crit, setup, hist>>

----------------------------------------------------------------------------
(* The writers *)

\* a commit is seen by the invocation in flight
Committed == hist' = IF InFlight THEN hist \cup {Graph'} ELSE hist

\* the ingester creates a relationship
IngestAddEdge ==
    /\ \E e \in universe.edges \ edges : edges' = edges \cup {e}
    /\ UNCHANGED <<assets, universe, drift, crit, rca, cas, setup>>
    /\ Committed

\* the ingester deletes a relationship
IngestRemoveEdge ==
    /\ \E e \in edges \cap universe.edges : edges' = edges \ {e}
    /\ UNCHANGED <<assets, universe, drift, crit, rca, cas, setup>>
    /\ Committed

\* the ingester records an asset's observed status
IngestSetStatus ==
    /\ \E i \in DOMAIN assets : \E s \in universe.statuses \ {assets[i].status} :
          assets' = [assets EXCEPT ![i].status = s]
    /\ UNCHANGED <<edges, universe, drift, crit, rca, cas, setup>>
    /\ Committed

\* the ingester records an observed property of an asset, or removes it
IngestSetProperty ==
    /\ \E w \in universe.writes :
          /\ Property(assets[w.id], w.field) # w.value
          /\ assets' = [assets EXCEPT ![w.id] =
                           [f \in DOMAIN @ \cup {w.field} |->
                               IF f = w.field THEN w.value ELSE @[f]]]
    /\ UNCHANGED <<edges, universe, drift, crit, rca, cas, setup>>
    /\ Committed

\* most assets a graph of the runs holds
MaxAssets == 6

\* the kinds of the relationship to a newly registered asset
AttachKinds == {"POWERS", "CONTROLS"}

\* the name of a newly registered asset: one no asset has, or one in use
FreshName == "Valve1"

\* between two cascade requests for the same source the ingester registers a
\* new asset and a relationship from the source to it
IngestAttach ==
    /\ cas.pc = "done"
    /\ "before" \notin DOMAIN cas
    /\ ~IsError(cas.result)
    /\ hist = {Graph}
    /\ Len(assets) < MaxAssets
    /\ \E s \in MatchName(assets, cas.name), k \in AttachKinds,
          n \in {assets[i].name : i \in DOMAIN assets} \cup {FreshName} :
          /\ assets' = Append(assets, [name |-> n, type |-> "Valve", status |-> "online"])
          /\ edges' = edges \cup {[src |-> s, kind |-> k, dst |-> Len(assets) + 1]}
    /\ UNCHANGED <<universe, drift, crit, rca, cas, setup, hist>>

----------------------------------------------------------------------------
(* setup_cascading_failures: five statements, each its own transaction *)

\* WHERE a.name IN [...] of the reset statement
ResetNames ==
    {"UPS-Main", "PLC-001", "PLC-002", "PLC-003", "PLC-005",
     "CoreSwitch-Datacenter", "NetworkSwitch-01", "NetworkSwitch-05",
     "EdgeGateway-01", "EdgeGateway-02", "Robot-01", "Robot-02",
     "Robot-03", "Robot-04", "Conveyor-01", "Sensor-001"}

\* WHERE downstream.type IN [...] of scenario 4
Scenario4Types == {"Sensor", "PLC", "IndustrialRobot", "Conveyor"}

\* the last nodes of the paths of 1..n relationships of kinds K from the nodes S
Downstream(E, K, S, n) ==
    UNION {{p[Len(p)].dst : p \in TrailsFrom(E, K, s, n)} : s \in S}

\* SET x.status = s for the nodes S
WithStatus(A, S, s) == [i \in DOMAIN A |-> IF i \in S THEN [A[i] EXCEPT !.status = s] ELSE A[i]]

\* the CASE of scenario 4
StatusAtHops(n) == IF n = 1 THEN "offline" ELSE IF n = 2 THEN "error" ELSE "degraded"

SetupReset ==
    /\ setup = "idle"
    /\ assets' = WithStatus(assets, {i \in DOMAIN assets : assets[i].name \in ResetNames},
                            "online")
    /\ setup' = "scenario1"
    /\ UNCHANGED <<edges, universe, drift, crit, rca, cas>>
    /\ Committed

\* UPS-Main goes offline and so does everything it powers within two hops
SetupScenario1 ==
    /\ setup = "scenario1"
    /\ LET ups == MatchName(assets, "UPS-Main")
           failed == WithStatus(assets, ups, "offline")
       IN  assets' = WithStatus(failed, Downstream(edges, {"POWERS"}, ups, 2), "offline")
    /\ setup' = "scenario2"
    /\ UNCHANGED <<edges, universe, drift, crit, rca, cas>>
    /\ Committed

\* the core switch and the devices connected to it go to error
SetupScenario2 ==
    /\ setup = "scenario2"
    /\ LET switch == MatchName(assets, "CoreSwitch-Datacenter")
           failed == WithStatus(assets, switch, "error")
       IN  assets' = WithStatus(failed, Downstream(edges, {"CONNECTS_TO"}, switch, 1), "error")
    /\ setup' = "scenario3"
    /\ UNCHANGED <<edges, universe, drift, crit, rca, cas>>
    /\ Committed

\* the gateway goes offline, the robots it feeds or controls go to error
SetupScenario3 ==
    /\ setup = "scenario3"
    /\ LET gateway == MatchName(assets, "EdgeGateway-02")
           failed == WithStatus(assets, gateway, "offline")
       IN  assets' = WithStatus(failed,
                                Downstream(edges, {"FEEDS_DATA", "CONTROLS"}, gateway, 1),
                                "error")
    /\ setup' = "scenario4"
    /\ UNCHANGED <<edges, universe, drift, crit, rca, cas>>
    /\ Committed

\* the switch goes offline; each downstream asset of a listed type gets the
\* status of the length of one of its paths (the last row written wins)
SetupScenario4 ==
    /\ setup = "scenario4"
    /\ LET switch == MatchName(assets, "NetworkSwitch-05")
           failed == WithStatus(assets, switch, "offline")
           paths == UNION {TrailsFrom(edges, {"CONNECTS_TO", "FEEDS_DATA"}, s, 3) :
                              s \in switch}
           hit == {p \in paths : failed[p[Len(p)].dst].type \in Scenario4Types}
           ends == {p[Len(p)].dst : p \in hit}
           hops(d) == {Len(p) : p \in {q \in hit : q[Len(q)].dst = d}}
       IN  \E last \in Choices([d \in ends |-> hops(d)]) :
              assets' = [i \in DOMAIN assets |->
                            IF i \in ends
                            THEN [failed[i] EXCEPT !.status = StatusAtHops(last[i])]
                            ELSE failed[i]]
    /\ setup' = "idle"
    /\ UNCHANGED <<edges, universe, drift, crit, rca, cas>>
    /\ Committed

----------------------------------------------------------------------------
(* The graphs of the runs *)

Edge(s, k, d) == [src |-> s, kind |-> k, dst |-> d]

Asset(n, t) == [name |-> n, type |-> t, status |-> "online"]

\* a plant of up to five assets; asset 1 is the one at the end of the lines
PlantAssets ==
    <<Asset("Robot1", "IndustrialRobot"), Asset("PLC1", "PLC"), Asset("UPS", "UPS"),
      Asset("Sensor1", "Sensor"), Asset("Switch1", "NetworkSwitch")>>

\* the relationships an ingester may report in the plant: the power line
\* UPS -> PLC1, control and data from PLC1 to Robot1, a direct feed
\* UPS -> Robot1, the detour UPS -> Switch1 -> Sensor1 -> PLC1, and a
\* dependency of Robot1 back on the UPS (a cycle)
PlantEdges ==
    {Edge(3, "POWERS", 2), Edge(2, "CONTROLS", 1), Edge(2, "FEEDS_DATA", 1),
     Edge(3, "POWERS", 1), Edge(3, "POWERS", 5), Edge(5, "CONNECTS_TO", 4),
     Edge(4, "FEEDS_DATA", 2), Edge(1, "DEPENDS_ON", 3)}

\* longest supply line of the line graphs, in hops
MaxChain == 6

LineAssets(n) == [i \in 1..n |-> Asset("Asset-" \o ToString(i), "PLC")]

\* asset i+1 powers asset i
LineEdges(n) == {Edge(i + 1, "POWERS", i) : i \in 1..(n - 1)}

NoHandlers ==
    /\ rca = RcaIdle
    /\ cas = CasIdle
    /\ crit = CritIdle
    /\ drift = DriftIdle
    /\ setup = "idle"
    /\ hist = {}

\* the plant with its first three or all five assets and no relationship yet
InitPlant ==
    /\ \E n \in {3, 5} :
          /\ assets = SubSeq(PlantAssets, 1, n)
          /\ universe = [edges |-> {e \in PlantEdges : e.src <= n /\ e.dst <= n},
                         statuses |-> {"online", "offline"}]
    /\ edges = {}
    /\ NoHandlers

\* a supply line of MaxChain hops; only the statuses change
InitLine ==
    /\ assets = LineAssets(MaxChain + 1)
    /\ edges = LineEdges(MaxChain + 1)
    /\ universe = [edges |-> {}, statuses |-> {"online", "offline"}]
    /\ NoHandlers

Init == InitPlant \/ InitLine

\* the writers commit between invocations only
QuietAddEdge == Idle /\ IngestAddEdge

QuietRemoveEdge == Idle /\ IngestRemoveEdge

QuietSetStatus == Idle /\ IngestSetStatus

Next ==
    \/ QuietAddEdge
    \/ QuietRemoveEdge
    \/ QuietSetStatus
    \/ RcaQuery1
    \/ RcaQuery2
    \/ RcaAgain
    \/ RcaRespond
    \/ CasQuery1
    \/ CasQuery2
    \/ CasRespond

Spec == Init /\ [][Next]_vars

----------------------------------------------------------------------------
(* The factory of setup_graph_relationships, with the handlers racing
   setup_cascading_failures *)

FactoryAssets ==
    <<Asset("UPS-Main", "UPS"), Asset("PLC-001", "PLC"), Asset("PLC-002", "PLC"),
      Asset("PLC-003", "PLC"), Asset("PLC-005", "PLC"),
      Asset("CoreSwitch-Datacenter", "NetworkSwitch"),
      Asset("NetworkSwitch-01", "NetworkSwitch"),
      Asset("NetworkSwitch-05", "NetworkSwitch"),
      Asset("EdgeGateway-01", "EdgeGateway"), Asset("EdgeGateway-02", "EdgeGateway"),
      Asset("Robot-01", "IndustrialRobot"), Asset("Robot-02", "IndustrialRobot"),
      Asset("Robot-03", "IndustrialRobot"), Asset("Robot-04", "IndustrialRobot"),
      Asset("Conveyor-01", "Conveyor"), Asset("Sensor-001", "Sensor")>>

FactoryId(name) == CHOOSE i \in DOMAIN FactoryAssets : FactoryAssets[i].name = name

Link(a, k, b) == Edge(FactoryId(a), k, FactoryId(b))

\* the MERGE statements of setup_graph_relationships
FactoryEdges ==
    {Link("UPS-Main", "POWERS", "PLC-001"), Link("UPS-Main", "POWERS", "PLC-002"),
     Link("UPS-Main", "POWERS", "PLC-003"), Link("UPS-Main", "POWERS", "PLC-005"),
     Link("UPS-Main", "POWERS", "CoreSwitch-Datacenter"),
     Link("UPS-Main", "POWERS", "NetworkSwitch-05"),
     Link("CoreSwitch-Datacenter", "CONNECTS_TO", "NetworkSwitch-01"),
     Link("CoreSwitch-Datacenter", "CONNECTS_TO", "NetworkSwitch-05"),
     Link("NetworkSwitch-01", "CONNECTS_TO", "EdgeGateway-01"),
     Link("NetworkSwitch-05", "CONNECTS_TO", "EdgeGateway-02"),
     Link("EdgeGateway-01", "FEEDS_DATA", "Robot-01"),
     Link("EdgeGateway-01", "FEEDS_DATA", "Robot-02"),
     Link("EdgeGateway-02", "FEEDS_DATA", "Robot-03"),
     Link("EdgeGateway-02", "FEEDS_DATA", "Robot-04"),
     Link("PLC-001", "CONTROLS", "Conveyor-01"),
     Link("PLC-002", "CONTROLS", "Robot-01"),
     Link("PLC-002", "CONTROLS", "Robot-02"),
     Link("NetworkSwitch-05", "CONNECTS_TO", "Sensor-001"),
     Link("Sensor-001", "FEEDS_DATA", "PLC-001")}

InitFactory ==
    /\ assets = FactoryAssets
    /\ edges = FactoryEdges
    /\ universe = [edges |-> {}, statuses |-> {}]
    /\ NoHandlers

NextRace ==
    \/ SetupReset
    \/ SetupScenario1
    \/ SetupScenario2
    \/ SetupScenario3
    \/ SetupScenario4
    \/ RcaQuery1
    \/ RcaQuery2
    \/ RcaRespond
    \/ CasQuery1
    \/ CasQuery2
    \/ CasRespond

SpecRace == InitFactory /\ [][NextRace]_vars

----------------------------------------------------------------------------
(* A plant in which two assets carry the same name *)

\* PLC1 was registered twice: assets 2 and 4
TwinAssets ==
    <<Asset("Robot1", "IndustrialRobot"), Asset("PLC1", "PLC"), Asset("UPS", "UPS"),
      Asset("PLC1", "PLC"), Asset("Sensor1", "Sensor")>>

\* the relationships that stay: UPS powers the first PLC1, which feeds Robot1;
\* Sensor1 feeds the second PLC1, which controls Sensor1
TwinEdges ==
    {Edge(3, "POWERS", 2), Edge(2, "FEEDS_DATA", 1),
     Edge(5, "FEEDS_DATA", 4), Edge(4, "CONTROLS", 5)}

\* the relationships the ingester reports and withdraws: UPS powers the
\* second PLC1, the first PLC1 connects to the second
TwinLinks == {Edge(3, "POWERS", 4), Edge(2, "CONNECTS_TO", 4)}

InitTwins ==
    /\ assets = TwinAssets
    /\ edges = TwinEdges
    /\ universe = [edges |-> TwinLinks, statuses |-> {"online", "failed"}]
    /\ NoHandlers

NextTwins ==
    \/ QuietAddEdge
    \/ QuietRemoveEdge
    \/ QuietSetStatus
    \/ IngestAttach
    \/ RcaQuery1
    \/ RcaQuery2
    \/ RcaAgain
    \/ RcaRespond
    \/ CasQuery1
    \/ CasQuery2
    \/ CasAgain
    \/ CasRespond

SpecTwins == InitTwins /\ [][NextTwins]_vars

----------------------------------------------------------------------------
(* A cell of two hubs that serve the same four sensors, and the factory *)

\* hub 1 is a switch, hub 2 a switch or a gateway
CellAssets(type) ==
    <<Asset("Switch-A", "NetworkSwitch"), Asset("Hub-B", type),
      Asset("Sensor-1", "Sensor"), Asset("Sensor-2", "Sensor"),
      Asset("Sensor-3", "Sensor"), Asset("Sensor-4", "Sensor")>>

\* each hub connects to each sensor
CellEdges == {Edge(h, "CONNECTS_TO", l) : h \in 1..2, l \in 3..6}

\* the relationships the ingester reports and withdraws: Sensor-1 feeds
\* Switch-A (a cycle through Switch-A), the hubs connect to each other
CellLinks ==
    {Edge(3, "FEEDS_DATA", 1), Edge(1, "CONNECTS_TO", 2), Edge(2, "CONNECTS_TO", 1)}

InitCell ==
    /\ \E type \in {"NetworkSwitch", "EdgeGateway"} : assets = CellAssets(type)
    /\ edges = CellEdges
    /\ universe = [edges |-> CellLinks, statuses |-> {"online", "degraded"}]
    /\ NoHandlers

NextCell ==
    \/ QuietAddEdge
    \/ QuietRemoveEdge
    \/ QuietSetStatus
    \/ RcaQuery1
    \/ RcaQuery2
    \/ RcaRespond
    \/ CasQuery1
    \/ CasQuery2
    \/ CasRespond
    \/ CritQuery
    \/ CritAgain
    \/ CritRespond

\* a handler is one synchronous function: once its first query has returned,
\* the server runs its next statement.  The second conjunct of fairness is
\* WF_vars(CasQuery2) with its ENABLED written out: the paths query returns
\* some list of rows on every graph, so the step is enabled exactly when
\* cas.pc = "second"
SpecCell ==
    /\ InitCell \/ InitFactory
    /\ [][NextCell]_vars
    /\ WF_vars(RcaQuery2)
    /\ ([]<>(cas.pc # "second") \/ []<><<CasQuery2>>_vars)

----------------------------------------------------------------------------
(* A shop of a predefined controller and a valve the repository does not
   know, with calculate_drift reading what the ingester observed *)

Device(n, t, st, ip, v, sum, zone) ==
    [name |-> n, type |-> t, status |-> st, ipAddress |-> ip, version |-> v,
     configChecksum |-> sum, securityZone |-> zone]

\* in name order; the controller as the repository intends it
ShopAssets ==
    <<Device("PLC-001", "PLC", "running", "192.168.1.10", "2.5.0", "a1b2c3d4",
             "Level 1 - Control"),
      Device("Valve-7", "Valve", "running", "192.168.1.10", "1.0.0", Null,
             "Level 1 - Control")>>

Writes(i, field, values) == {[id |-> i, field |-> field, value |-> v] : v \in values}

\* what the ingester can observe
ShopWrites ==
    Writes(1, "status", {"running", "Running", "offline", "Offline", "degraded", Null})
      \cup Writes(1, "ipAddress", {"192.168.1.10", "192.168.1.99"})
      \cup Writes(1, "version", {"2.5.0", "2.6.0"})
      \cup Writes(1, "configChecksum", {"a1b2c3d4", "ffff0000", Null})
      \cup Writes(1, "securityZone", {"Level 1 - Control", "Level 3 - Operations"})
      \cup Writes(2, "status", {"running", "offline"})
      \cup Writes(2, "configChecksum", {"270f", Null})
      \cup Writes(2, "securityZone", {"Level 1 - Control", "Level 3 - Operations"})

InitShop ==
    /\ assets = ShopAssets
    /\ edges = {}
    /\ universe = [edges |-> {}, statuses |-> {}, writes |-> ShopWrites]
    /\ NoHandlers

QuietSetProperty == Idle /\ IngestSetProperty

NextShop ==
    \/ QuietSetProperty
    \/ DriftQuery
    \/ DriftRespond

SpecShop == InitShop /\ [][NextShop]_vars

----------------------------------------------------------------------------
(* A rack of hubs over a row of sensors: more single points of failure than
   the list of analyze_critical_paths holds *)

\* the hubs of the rack
Hubs == 11

\* the sensors of the rack
RackSensors == 6

\* the hubs whose last relationship the ingester reports and withdraws
LooseHubs == 6

\* hub h connects to the first RackCount(h) sensors
RackCount(h) == 4 + ((h - 1) % 3)

\* hubs 1..Hubs, then the sensors; three hubs of each type and status, so
\* that the scores of the hubs differ while every relationship is reported
RackAssets ==
    [i \in 1..(Hubs + RackSensors) |->
        IF i <= Hubs
        THEN [name |-> "Hub-" \o ToString(i),
              type |-> IF ((i - 1) \div 3) % 4 >= 2 THEN "NetworkSwitch" ELSE "EdgeGateway",
              status |-> IF ((i - 1) \div 3) % 2 = 1 THEN "degraded" ELSE "online"]
        ELSE Asset("Sensor-" \o ToString(i - Hubs), "Sensor")]

RackEdges ==
    {e \in {Edge(h, "CONNECTS_TO", Hubs + l) : h \in 1..Hubs, l \in 1..RackSensors} :
        e.dst - Hubs <= RackCount(e.src)}

RackLinks == {Edge(h, "CONNECTS_TO", Hubs + RackCount(h)) : h \in 1..LooseHubs}

InitRack ==
    /\ assets = RackAssets
    /\ edges = RackEdges
    /\ universe = [edges |-> RackLinks, statuses |-> {}]
    /\ NoHandlers

NextRack ==
    \/ QuietAddEdge
    \/ QuietRemoveEdge
    \/ CritQuery
    \/ CritAgain
    \/ CritRespond

SpecRack == InitRack /\ [][NextRack]_vars

----------------------------------------------------------------------------
(* Properties *)

\* the traversal of the root-cause analyzer as the specification words it
DependencyKinds == {"POWERS", "CONNECTS_TO", "FEEDS_DATA", "DEPENDS_ON"}

Unhealthy(i) ==
    assets[i].status \in {"offline", "error", "failed", "unreachable", "degraded", "warning"}

\* the assets from which k relationships of kinds K lead to asset t
RECURSIVE HopsBack(_, _, _)
HopsBack(K, t, k) ==
    IF k = 0 THEN {t}
    ELSE {e.src : e \in {x \in edges : x.kind \in K /\ x.dst \in HopsBack(K, t, k - 1)}}

\* the shortest hop count from a to t over the dependency kinds, 1..5, or 0
\* when a is no ancestor of t within five hops
HopDistance(a, t) ==
    LET ks == {k \in 1..5 : a \in HopsBack(DependencyKinds, t, k)}
    IN  IF ks = {} THEN 0 ELSE CHOOSE k \in ks : \A j \in ks : k <= j

\* names are unique in the graphs of Spec
IdOf(name) == CHOOSE i \in DOMAIN assets : assets[i].name = name

RcaDone == rca.pc = "done"

\* find_root_cause returned a root cause found upstream
RcaUpstream == RcaDone /\ "relationshipTypes" \in DOMAIN rca.result

\* find_root_cause returned the isolated-failure result
RcaAlone == RcaDone /\ ~IsError(rca.result) /\ ~RcaUpstream

ChainNames(r) == [i \in DOMAIN r.failureChain |-> r.failureChain[i].name]

\* C1: the returned root cause is of maximum depth: no unhealthy ancestor of
\* the target within five hops has a greater shortest hop distance to the
\* target than the returned root-cause asset
C1_RootCauseIsDeepest ==
    (RcaDone /\ ~IsError(rca.result)) =>
        LET t == IdOf(rca.name)
            depth == IF RcaUpstream THEN HopDistance(IdOf(rca.result.rootCause), t) ELSE 0
        IN  \A a \in DOMAIN assets \ {t} :
               (Unhealthy(a) /\ HopDistance(a, t) > 0) => HopDistance(a, t) <= depth

\* C2: failureDepth is the shortest hop count from the returned root cause to
\* the target, also when paths of different lengths join the two
C2_DepthIsShortestHopCount ==
    /\ RcaUpstream =>
          rca.result.failureDepth = HopDistance(IdOf(rca.result.rootCause), IdOf(rca.name))
    /\ RcaAlone => rca.result.failureDepth = 0

\* the graph UPS -POWERS-> PLC1, PLC1 -CONTROLS-> Robot1 and nothing else
ScenarioGraph ==
    /\ DOMAIN assets = 1..3
    /\ edges = {Edge(3, "POWERS", 2), Edge(2, "CONTROLS", 1)}

AllOfflineAsked ==
    /\ ScenarioGraph
    /\ \A i \in 1..3 : assets[i].status = "offline"
    /\ RcaDone
    /\ rca.name = "Robot1"

\* C3 as claimed: with UPS, PLC1 and Robot1 offline, the root cause of Robot1
\* is UPS at depth 2 with chain [UPS, PLC1, Robot1]
C3_ScenarioFindsUps ==
    AllOfflineAsked =>
        /\ rca.result.rootCause = "UPS"
        /\ rca.result.failureDepth = 2
        /\ ChainNames(rca.result) = <<"UPS", "PLC1", "Robot1">>

\* C3 as amended: the CONTROLS relationship is not followed, so Robot1 itself
\* is returned at depth 0 with an empty chain
C3_ScenarioFindsRobot ==
    AllOfflineAsked =>
        /\ rca.result.rootCause = "Robot1"
        /\ rca.result.failureDepth = 0
        /\ rca.result.failureChain = <<>>

C3_Witness == AllOfflineAsked

UpsHealthyAsked ==
    /\ ScenarioGraph
    /\ assets[3].status = "online"
    /\ assets[2].status = "offline"
    /\ RcaDone
    /\ rca.name = "Robot1"

\* C4 as claimed: with UPS healthy and PLC1 offline, the root cause of Robot1
\* is PLC1 at depth 1
C4_ScenarioFindsPlc ==
    UpsHealthyAsked =>
        /\ rca.result.rootCause = "PLC1"
        /\ rca.result.failureDepth = 1

\* C4 as amended: PLC1 reaches Robot1 over CONTROLS only, so Robot1 itself is
\* returned at depth 0
C4_ScenarioKeepsRobot ==
    UpsHealthyAsked =>
        /\ rca.result.rootCause = "Robot1"
        /\ rca.result.failureDepth = 0

C4_Witness == UpsHealthyAsked /\ assets[1].status = "offline"

\* C5: a root cause found upstream lies within five hops of the target over
\* POWERS, CONNECTS_TO, FEEDS_DATA and DEPENDS_ON relationships
C5_RootWithinFiveDependencyHops ==
    RcaUpstream =>
        \E k \in 1..5 :
           IdOf(rca.result.rootCause) \in HopsBack(DependencyKinds, IdOf(rca.name), k)

\* an offline asset six hops up the line from the target that was asked about
C5_Witness ==
    /\ RcaDone
    /\ ~IsError(rca.result)
    /\ \E a \in DOMAIN assets :
          /\ Unhealthy(a)
          /\ HopDistance(a, IdOf(rca.name)) = 0
          /\ a \in HopsBack(DependencyKinds, IdOf(rca.name), 6)

NoUnhealthyAncestor(t) ==
    \A k \in 1..5 : \A a \in HopsBack(DependencyKinds, t, k) : ~Unhealthy(a)

C7_NotFoundIffAbsent ==
    /\ RcaDone =>
          /\ IsError(rca.result) <=> MatchName(assets, rca.name) = {}
          /\ IsError(rca.result) => rca.result = [error |-> "Asset not found"]
    /\ cas.pc = "done" =>
          /\ IsError(cas.result) <=> MatchName(assets, cas.name) = {}
          /\ IsError(cas.result) => cas.result = [error |-> "Asset not found"]

C7_Witness ==
    /\ cas.pc = "done"
    /\ MatchName(assets, cas.name) = {}
    /\ IsError(cas.result)

\* C8 as claimed: every successful result, the isolated one included, has a
\* chain of failureDepth + 1 assets from the root cause to the target and
\* failureDepth relationship kinds
C8_ChainInEveryResult ==
    (RcaDone /\ ~IsError(rca.result)) =>
        LET r == rca.result
        IN  /\ Len(r.failureChain) = r.failureDepth + 1
            /\ r.failureChain[1].name = r.rootCause
            /\ r.failureChain[Len(r.failureChain)].name = r.targetAsset
            /\ "relationshipTypes" \in DOMAIN r
            /\ Len(r.relationshipTypes) = r.failureDepth

\* C8 as amended: a result with an upstream root cause has that chain, each
\* step a relationship of the graph; the isolated result has an empty chain
\* and no relationship kinds
C8_ChainOfUpstreamResult ==
    /\ RcaUpstream =>
          LET r == rca.result
          IN  /\ Len(r.failureChain) = r.failureDepth + 1
              /\ Len(r.relationshipTypes) = r.failureDepth
              /\ r.failureChain[1].name = r.rootCause
              /\ r.failureChain[Len(r.failureChain)].name = r.targetAsset
              /\ \A i \in 1..r.failureDepth :
                    Edge(IdOf(r.failureChain[i].name), r.relationshipTypes[i],
                         IdOf(r.failureChain[i + 1].name)) \in edges
    /\ RcaAlone =>
          /\ rca.result.failureChain = <<>>
          /\ rca.result.failureDepth = 0
          /\ rca.result.rootCause = rca.result.targetAsset

C8_Witness == RcaUpstream /\ rca.result.failureDepth >= 3

\* C9: two invocations on the same snapshot with the same target return the
\* same root cause and chain
C9_SameAnswerTwice ==
    (RcaDone /\ rca.before # NoRecord) => rca.result = rca.before

\* what find_root_cause returns when both its queries read the version (A, E)
RcaOnVersion(A, E, name) ==
    (RcaFirst(A, E, name) \ {NoRecord})
       \cup (IF NoRecord \in RcaFirst(A, E, name) THEN RcaSecond(A, name) ELSE {})

\* what analyze_cascade_impact returns when both its queries read (A, E)
CasOnVersion(A, E, name) ==
    IF MatchName(A, name) = {} THEN {AssetNotFound}
    ELSE UNION {{CasImpact(A[i], m) : m \in CasAssetsMaps(A, E, name)} :
                  i \in MatchName(A, name)}

\* C10: a result equals the result of the operation run on one of the
\* versions committed while it ran
C10_OneVersionPerInvocation ==
    /\ RcaDone =>
          \E g \in hist : rca.result \in RcaOnVersion(g.assets, g.edges, rca.name)
    /\ cas.pc = "done" =>
          \E g \in hist : cas.result \in CasOnVersion(g.assets, g.edges, cas.name)

----------------------------------------------------------------------------
(* Cycles *)

\* analyze_cascade_impact returned a result that is no error
CasDone == cas.pc = "done" /\ ~IsError(cas.result)

\* asset i lies on a cycle of at most n relationships of kinds K
OnCycle(K, i, n) == \E k \in 1..n : i \in HopsBack(K, i, k)

\* no asset is listed twice in allAffectedAssets, and no more entries than
\* assets
EachAssetListedOnce ==
    CasDone =>
        LET all == cas.result.allAffectedAssets
        IN  /\ \A k1, k2 \in DOMAIN all : all[k1].name = all[k2].name => k1 = k2
            /\ cas.result.totalDownstream <= Cardinality(DOMAIN assets)

\* a walk of the root-cause or the critical-path analysis is bounded on a
\* graph with cycles too: at most five relationships in a chain, no asset
\* counted twice as a dependent
WalksBounded ==
    /\ RcaUpstream => rca.result.failureDepth <= 5
    /\ crit.pc = "done" =>
          \A i \in DOMAIN crit.result :
             crit.result[i].dependentCount <= Cardinality(DOMAIN assets)

\* C11: on graphs with cycles, a cycle through the start asset included, a
\* handler that has sent its first query returns, its walks are bounded, and
\* analyze_cascade_impact lists each reached asset at most once
C11_TraversalsTerminate ==
    /\ [](EachAssetListedOnce /\ WalksBounded)
    /\ (rca.pc = "second") ~> (rca.pc = "done")
    /\ (cas.pc = "second") ~> (cas.pc = "done")

\* the source lies on a cycle and is listed once among its own descendants
C11_Witness ==
    /\ CasDone
    /\ \E s \in MatchName(assets, cas.name) : OnCycle(CascadeKinds, s, 2)
    /\ cas.name \in DOMAIN cas.result.allAffectedAssets
    /\ cas.result.totalDownstream = Cardinality(DOMAIN assets)

----------------------------------------------------------------------------
(* Cascade impact *)

\* the traversal of the cascade analyzer as the specification words it
ImpactKinds == {"POWERS", "CONNECTS_TO", "FEEDS_DATA", "DEPENDS_ON", "CONTROLS"}

\* the assets to which k relationships of kinds K lead from asset s
RECURSIVE HopsForward(_, _, _)
HopsForward(K, s, k) ==
    IF k = 0 THEN {s}
    ELSE LET nearer == HopsForward(K, s, k - 1)
         IN  {e.dst : e \in {x \in edges : x.kind \in K /\ x.src \in nearer}}

\* the shortest forward hop count from s to i over the impact kinds, 1..5, or
\* 0 when i is not reached within five hops
ForwardDistance(s, i) ==
    LET ks == {k \in 1..5 : i \in HopsForward(ImpactKinds, s, k)}
    IN  IF ks = {} THEN 0 ELSE CHOOSE k \in ks : \A j \in ks : k <= j

\* the assets reached from s within five hops
Reached(s) == {i \in DOMAIN assets : ForwardDistance(s, i) > 0}

\* the result in cas was computed on the graph as it is now
CasCurrent == CasDone /\ hist = {Graph}

\* the requested name belongs to one asset only
CasOneSource == CasCurrent /\ Cardinality(MatchName(assets, cas.name)) = 1

CasSource == CHOOSE s \in MatchName(assets, cas.name) : TRUE

\* the keys of the entries of the result that carry the name n
EntriesNamed(n) ==
    {k \in DOMAIN cas.result.allAffectedAssets : cas.result.allAffectedAssets[k].name = n}

\* C12: the entries of allAffectedAssets correspond one to one to the assets
\* whose shortest forward hop count from the source is between 1 and 5, and
\* each entry records that hop count as its distance
C12_DistanceIsShortestHopCount ==
    CasOneSource =>
        \A n \in {assets[i].name : i \in DOMAIN assets} :
           LET named == {i \in Reached(CasSource) : assets[i].name = n}
               all == cas.result.allAffectedAssets
           IN  /\ Cardinality(EntriesNamed(n)) = Cardinality(named)
               /\ \A i \in named : \E k \in EntriesNamed(n) :
                     all[k].distance = ForwardDistance(CasSource, i)

\* C13: totalDownstream is the number of distinct assets reached from the
\* source within five hops, also when two of them carry the same name
C13_TotalCountsDistinctAssets ==
    CasOneSource => cas.result.totalDownstream = Cardinality(Reached(CasSource))

\* the statuses the specification calls unhealthy
UnhealthyStatus(st) ==
    st \in {"offline", "error", "failed", "unreachable", "degraded", "warning"}

\* C14: an entry is marked affected exactly when its status is unhealthy
\* (offline, error, failed, unreachable, degraded or warning), and
\* currentlyAffected is the number of unhealthy entries
C14_UnhealthyCountedAffected ==
    CasDone =>
        LET all == cas.result.allAffectedAssets
        IN  /\ \A k \in DOMAIN all : all[k].isAffected <=> UnhealthyStatus(all[k].status)
            /\ cas.result.currentlyAffected =
                  Cardinality({k \in DOMAIN all : UnhealthyStatus(all[k].status)})

\* the severities, lowest first
SeverityRank(sev) ==
    IF sev = "low" THEN 0 ELSE IF sev = "medium" THEN 1 ELSE IF sev = "high" THEN 2 ELSE 3

\* largest number of downstream assets the step function is compared on
MaxDownstream == 16

\* C15: severity is the step function of totalDownstream (critical above 10,
\* high above 5, medium above 2, low otherwise), never lower for a larger
\* totalDownstream, and low for 2 downstream assets at radius 2
C15_SeverityIsStepFunction ==
    /\ CasDone =>
          LET n == cas.result.totalDownstream
          IN  /\ n > 10 => cas.result.severity = "critical"
              /\ (n > 5 /\ n <= 10) => cas.result.severity = "high"
              /\ (n > 2 /\ n <= 5) => cas.result.severity = "medium"
              /\ n <= 2 => cas.result.severity = "low"
              /\ (n = 2 /\ cas.result.impactRadius = 2) => cas.result.severity = "low"
    /\ \A a, b \in 0..MaxDownstream :
          a <= b => SeverityRank(Severity(a)) <= SeverityRank(Severity(b))

\* a source with eleven downstream assets, just above the highest threshold
C15_Witness ==
    /\ CasDone
    /\ cas.result.totalDownstream = 11
    /\ cas.result.severity = "critical"

\* the cascade request was answered twice, and between the two calls the
\* ingester attached a new asset to the source
CasRegrown ==
    /\ CasDone
    /\ "before" \in DOMAIN cas
    /\ ~IsError(cas.before)
    /\ cas.grown

\* C16: a relationship of an allowed kind from the source to a new asset
\* never decreases the totalDownstream or the impactRadius reported for the
\* source
C16_AttachNeverShrinksImpact ==
    CasRegrown =>
        /\ cas.result.totalDownstream >= cas.before.totalDownstream
        /\ cas.result.impactRadius >= cas.before.impactRadius

\* the first match of a name: the asset of lowest id that carries it
FirstMatch(name) ==
    CHOOSE i \in MatchName(assets, name) : \A j \in MatchName(assets, name) : i <= j

Shared(name) == Cardinality(MatchName(assets, name)) >= 2

\* the assets within five hops upstream of t over the dependency kinds
Ancestors(t) == UNION {HopsBack(DependencyKinds, t, k) : k \in 1..5}

\* C17: when several assets share the requested name, both handlers analyse
\* the one of lowest id only: a root cause is that asset or one of its
\* ancestors and is found when it has an unhealthy ancestor, every listed
\* asset is one of its descendants, and a second invocation on the same
\* graph returns the same result
C17_FirstMatchAnalysed ==
    /\ (RcaDone /\ hist = {Graph} /\ Shared(rca.name)) =>
          LET t == FirstMatch(rca.name)
          IN  /\ RcaUpstream =>
                    \E a \in Ancestors(t) : assets[a].name = rca.result.rootCause
              /\ (\E a \in Ancestors(t) : Unhealthy(a)) => RcaUpstream
              /\ rca.before # NoRecord => rca.result = rca.before
    /\ (CasCurrent /\ Shared(cas.name)) =>
          LET s == FirstMatch(cas.name)
              all == cas.result.allAffectedAssets
          IN  /\ \A k \in DOMAIN all : \E i \in Reached(s) : assets[i].name = all[k].name
              /\ ("before" \in DOMAIN cas /\ ~cas.grown) => cas.result = cas.before

----------------------------------------------------------------------------
(* Healthy assets on the way *)

\* C18: the status test selects the asset reported, not the walk: when the
\* target has an unhealthy ancestor within five hops, whatever the status of
\* the assets in between, find_root_cause returns an unhealthy upstream root
\* cause
C18_WalkPassesHealthyAssets ==
    (RcaDone /\ ~IsError(rca.result)) =>
        ((\E a \in Ancestors(IdOf(rca.name)) : Unhealthy(a)) =>
            /\ RcaUpstream
            /\ UnhealthyStatus(rca.result.rootCauseStatus))

\* the only unhealthy ancestor is two or more hops away, every asset between
\* it and the target is healthy, and it is returned
C18_Witness ==
    /\ RcaUpstream
    /\ HopDistance(IdOf(rca.result.rootCause), IdOf(rca.name)) >= 2
    /\ \A a \in Ancestors(IdOf(rca.name)) :
          Unhealthy(a) => a = IdOf(rca.result.rootCause)
    /\ ~Unhealthy(IdOf(rca.name))
    /\ \A i \in 2..Len(rca.result.failureChain) :
          rca.result.failureChain[i].status = "online"

----------------------------------------------------------------------------
(* Critical paths *)

CritDone == crit.pc = "done"

\* the assets reached from c within three hops over POWERS, CONNECTS_TO and
\* FEEDS_DATA relationships
Dependents(c) ==
    UNION {HopsForward({"POWERS", "CONNECTS_TO", "FEEDS_DATA"}, c, k) : k \in 1..3}

\* C19: for every asset reported, dependentCount is the number of distinct
\* assets reachable within 3 hops over POWERS, CONNECTS_TO and FEEDS_DATA and
\* exceeds 3; criticalityScore is dependentCount, plus 10 for a UPS, Router
\* or NetworkSwitch, plus 5 for status warning or degraded; severity is
\* critical above 20, high above 10, medium otherwise
C19_ScoreOfReportedAssets ==
    CritDone =>
        \A i \in DOMAIN crit.result :
           LET row == crit.result[i]
               c == crit.ids[i]
               bonus == (IF assets[c].type \in {"UPS", "Router", "NetworkSwitch"}
                         THEN 10 ELSE 0)
                          + (IF assets[c].status \in {"warning", "degraded"} THEN 5 ELSE 0)
           IN  /\ row.asset = assets[c].name
               /\ row.dependentCount = Cardinality(Dependents(c))
               /\ row.dependentCount > 3
               /\ row.criticalityScore = row.dependentCount + bonus
               /\ row.criticalityScore > 20 => row.severity = "critical"
               /\ (row.criticalityScore > 10 /\ row.criticalityScore <= 20) =>
                     row.severity = "high"
               /\ row.criticalityScore <= 10 => row.severity = "medium"

\* a list with an asset rated critical and an asset rated high
C19_Witness ==
    /\ CritDone
    /\ \E i, j \in DOMAIN crit.result :
          /\ crit.result[i].severity = "critical"
          /\ crit.result[j].severity = "high"

\* C20: the list is in descending order of criticalityScore, assets of equal
\* score in ascending order of id, and a second invocation on the same graph
\* returns the same list
C20_OrderIsDetermined ==
    CritDone =>
        /\ \A i, j \in DOMAIN crit.result :
              i < j =>
                 /\ crit.result[i].criticalityScore >= crit.result[j].criticalityScore
                 /\ crit.result[i].criticalityScore = crit.result[j].criticalityScore =>
                       crit.ids[i] < crit.ids[j]
        /\ crit.before # NoRecord => crit.result = crit.before.result

\* the assets with more than 3 distinct downstream assets within 3 hops
Qualified == {c \in DOMAIN assets : Cardinality(Dependents(c)) > 3}

\* the score of asset c as the specification words it
ScoreOf(c) ==
    Cardinality(Dependents(c))
      + (IF assets[c].type \in {"UPS", "Router", "NetworkSwitch"} THEN 10 ELSE 0)
      + (IF assets[c].status \in {"warning", "degraded"} THEN 5 ELSE 0)

\* the assets the rows of the list came from
CritListed == {crit.ids[i] : i \in DOMAIN crit.ids}

\* C21 as claimed: an asset is in the list if and only if it has more than 3
\* distinct downstream assets within 3 hops, whatever the number of such
\* assets
C21_EveryQualifiedAssetListed ==
    CritDone => CritListed = Qualified

\* C21 as amended: only such assets are listed, each once; all of them when
\* there are at most 10, and otherwise 10 of them, none with a lower score
\* than an asset left out
C21_TopTenOfQualifiedListed ==
    CritDone =>
        /\ CritListed \subseteq Qualified
        /\ Cardinality(CritListed) = Len(crit.ids)
        /\ Len(crit.ids) = IF Cardinality(Qualified) <= 10 THEN Cardinality(Qualified) ELSE 10
        /\ \A c \in Qualified \ CritListed : \A d \in CritListed : ScoreOf(c) <= ScoreOf(d)

\* eleven assets qualify and one of them is left out of the list
C21_Witness ==
    /\ CritDone
    /\ Cardinality(Qualified) = 11
    /\ Len(crit.result) = 10

----------------------------------------------------------------------------
(* Drift *)

\* calculate_drift has answered with a report
DriftDone == drift.pc = "done" /\ drift.result # DriftRaised

\* the fields compared, in the order of comparison
DriftFields == <<"status", "ipAddress", "version", "configChecksum", "securityZone">>

DriftRank == [sev \in {"none", "medium", "high", "critical"} |->
                 CASE sev = "none" -> 0 [] sev = "medium" -> 1
                   [] sev = "high" -> 2 [] sev = "critical" -> 3]

\* what the query observed of asset i, and what the repository intends
Observed(i) == ActualState(assets[i])

Intended(i) == drift.intended[i]

\* the spellings of one status
StatusSpellings == {{"running", "Running", "RUNNING"}, {"offline", "Offline"}}

SameIgnoringCase(a, b) == a = b \/ \E c \in StatusSpellings : a \in c /\ b \in c

\* field f of observation X differs from intention Y
Differs(X, Y, f) ==
    IF f = "status" THEN ~SameIgnoringCase(X[f], Y[f]) ELSE X[f] # Y[f]

\* the differences that are reported: all but an unknown observed checksum
Mismatches(X, Y) ==
    {f \in {"status", "ipAddress", "version", "configChecksum", "securityZone"} :
        /\ Differs(X, Y, f)
        /\ ~(f = "configChecksum" /\ X[f] = "unknown")}

\* the severity of a mismatch entry of field f
FieldSeverity(X, f) ==
    CASE f = "status" -> IF X.status \in {"offline", "error", "failed"}
                         THEN "critical" ELSE "high"
      [] f = "ipAddress" -> "medium"
      [] f = "version" -> "high"
      [] f = "configChecksum" -> "high"
      [] f = "securityZone" -> "critical"

\* the records of the report, and the assets they came from
DriftRecords == drift.result.drifts

DriftListed == {drift.ids[k] : k \in DOMAIN drift.ids}

Position(f) == CHOOSE n \in DOMAIN DriftFields : DriftFields[n] = f

\* C22: the driftStatus of every record is the maximum severity among its
\* mismatch entries, with critical > high > medium > none
C22_StatusIsMaximumSeverity ==
    DriftDone =>
        \A k \in DOMAIN DriftRecords :
            LET r == DriftRecords[k]
            IN  DriftRank[r.driftStatus]
                  = SetMax({DriftRank[r.drifts[j].severity] : j \in DOMAIN r.drifts} \cup {0})

\* C23: comparing the observed configuration of any examined asset with
\* itself completes without error and yields no mismatch, absent values
\* included
C23_ComparingWithItselfIsInSync ==
    drift.pc = "done" =>
        \A i \in DriftExamined(assets) :
            /\ DriftOfAsset(Observed(i), Observed(i)) # DriftRaised
            /\ DriftOfAsset(Observed(i), Observed(i)).drifts = <<>>

\* C24: every mismatch entry carries the severity of its field, the entries
\* of a record are in the order status, ipAddress, version, configChecksum,
\* securityZone, a status entry is there exactly when the statuses differ
\* beyond their case, and a difference in the version alone yields the one
\* entry (version, high)
C24_EntriesCarryFieldSeverity ==
    DriftDone =>
        /\ \A k \in DOMAIN DriftRecords :
              LET r == DriftRecords[k]
                  X == Observed(drift.ids[k])
                  Y == Intended(drift.ids[k])
              IN  /\ \A j \in DOMAIN r.drifts :
                        /\ r.drifts[j].severity = FieldSeverity(X, r.drifts[j].field)
                        /\ r.drifts[j].actual = X[r.drifts[j].field]
                        /\ r.drifts[j].intended = Y[r.drifts[j].field]
                  /\ \A j \in DOMAIN r.drifts : \A l \in DOMAIN r.drifts :
                        j < l => Position(r.drifts[j].field) < Position(r.drifts[l].field)
                  /\ (\E j \in DOMAIN r.drifts : r.drifts[j].field = "status")
                        <=> ~SameIgnoringCase(X.status, Y.status)
        /\ \A i \in DriftExamined(assets) :
              (\A f \in Range(DriftFields) :
                   Differs(Observed(i), Intended(i), f) <=> f = "version")
                => \E k \in DOMAIN DriftRecords :
                      /\ drift.ids[k] = i
                      /\ DriftRecords[k].drifts
                           = <<[field |-> "version", intended |-> Intended(i).version,
                                actual |-> Observed(i).version, severity |-> "high"]>>

\* the controller runs version 2.6.0 where 2.5.0 is intended, in a status
\* spelled Running, and is listed for its version alone
C24_Witness ==
    /\ DriftDone
    /\ Observed(1).status = "Running"
    /\ Observed(1).version = "2.6.0"
    /\ \E k \in DOMAIN DriftRecords :
          /\ drift.ids[k] = 1
          /\ DriftRecords[k].driftCount = 1
          /\ DriftRecords[k].drifts[1].field = "version"

\* C25: an examined asset is listed if and only if it has a reported
\* mismatch, a checksum difference with an unknown observed checksum not
\* being one; every record has driftCount >= 1 and a driftStatus other than
\* none
C25_ListedIffMismatch ==
    DriftDone =>
        /\ \A i \in DriftExamined(assets) :
              i \in DriftListed <=> Mismatches(Observed(i), Intended(i)) # {}
        /\ \A k \in DOMAIN DriftRecords :
              /\ DriftRecords[k].driftCount >= 1
              /\ DriftRecords[k].driftCount
                   = Cardinality(Mismatches(Observed(drift.ids[k]), Intended(drift.ids[k])))
              /\ DriftRecords[k].driftStatus # "none"

\* the controller's only difference is a checksum nobody observed, and it
\* is not listed
C25_Witness ==
    /\ DriftDone
    /\ Property(assets[1], "configChecksum") = Null
    /\ \A f \in Range(DriftFields) :
          Differs(Observed(1), Intended(1), f) <=> f = "configChecksum"
    /\ 1 \notin DriftListed

\* C28: totalAssets is the number of assets examined, inSyncAssets the
\* number of examined assets without a reported mismatch, and driftedAssets
\* + inSyncAssets = totalAssets
C28_SummaryCountsExaminedAssets ==
    DriftDone =>
        LET summary == drift.result.summary
        IN  /\ summary.totalAssets = Cardinality(DriftExamined(assets))
            /\ summary.inSyncAssets
                 = Cardinality({i \in DriftExamined(assets) :
                                   Mismatches(Observed(i), Intended(i)) = {}})
            /\ summary.driftedAssets + summary.inSyncAssets = summary.totalAssets

\* C29: criticalDrifts is the number of records whose driftStatus is
\* critical, so it never exceeds driftedAssets
C29_CriticalDriftsCountsRecords ==
    DriftDone =>
        LET summary == drift.result.summary
        IN  /\ summary.criticalDrifts
                 = Cardinality({k \in DOMAIN DriftRecords :
                                   DriftRecords[k].driftStatus = "critical"})
            /\ summary.criticalDrifts <= summary.driftedAssets

----------------------------------------------------------------------------
(* The source and the target in their own results *)

\* C26: the source asset is not listed among its own downstream assets and
\* not counted in totalDownstream, also when a cycle leads through it
C26_SourceNotItsOwnDownstream ==
    CasDone =>
        /\ cas.name \notin DOMAIN cas.result.allAffectedAssets
        /\ (CasOneSource =>
               cas.result.totalDownstream = Cardinality(Reached(CasSource) \ {CasSource}))

\* C27: when find_root_cause returns the target itself as the root cause,
\* failureDepth is 0
C27_TargetAsRootCauseAtDepthZero ==
    (RcaDone /\ ~IsError(rca.result) /\ rca.result.rootCause = rca.name) =>
        rca.result.failureDepth = 0

\* the distances listed in the result
CasDistances ==
    {cas.result.allAffectedAssets[n].distance : n \in DOMAIN cas.result.allAffectedAssets}

\* C30: 0 <= currentlyAffected <= totalDownstream, 0 <= impactRadius <= 5,
\* impactRadius = 0 exactly when totalDownstream = 0, and impactRadius is
\* the largest of the distances listed
C30_CountsAndRadiusBounded ==
    CasDone =>
        /\ 0 <= cas.result.currentlyAffected
        /\ cas.result.currentlyAffected <= cas.result.totalDownstream
        /\ 0 <= cas.result.impactRadius
        /\ cas.result.impactRadius <= 5
        /\ cas.result.impactRadius = 0 <=> cas.result.totalDownstream = 0
        /\ \A d \in CasDistances : d <= cas.result.impactRadius
        /\ cas.result.totalDownstream > 0 => cas.result.impactRadius \in CasDistances

\* the head of the supply line: five assets within five hops, a sixth
\* beyond them, some of the five unhealthy and some not
C30_Witness ==
    /\ CasDone
    /\ Len(assets) = MaxChain + 1
    /\ cas.name = assets[Len(assets)].name
    /\ cas.result.impactRadius = 5
    /\ cas.result.totalDownstream = 5
    /\ 0 < cas.result.currentlyAffected
    /\ cas.result.currentlyAffected < cas.result.totalDownstream

====
